---- MODULE Spec2Model ----
(***************************************************************************)
(* yatube/posts/views.py: the six request handlers of the posts app (index, *)
(* group_posts, profile, post_detail, post_create, post_edit) over the      *)
(* persistent store of Post rows, together with the framework pieces the    *)
(* handlers call: Paginator.get_page, get_object_or_404, login_required     *)
(* and the PostForm validator.                                              *)
(***************************************************************************)
EXTENDS Integers, Naturals, Sequences, FiniteSets, TLC

\* ---------------------------------------------------------------- bounds
MaxTime == 2           \* last value of the server clock: a save needs a later time
MaxItems == 13         \* most Post rows of the fixture store (paginator runs)
MaxPerPage == 10       \* largest settings.PAGE tried with the fixture store
MaxPageNumber == 14    \* largest ?page=K requested of the fixture store

\* ---------------------------------------------------------------- data
Users == {"u1", "u2"}                  \* usernames of the User rows
AnonymousUser == "AnonymousUser"       \* request.user without a session
Groups == {"g1", "g2"}                 \* slugs of the Group rows
NoGroup == "None"                      \* post.group of an ungrouped post
Slugs == Groups \cup {"zz"}            \* slugs a URL can carry
Usernames == Users \cup {"nobody"}     \* usernames a URL can carry

VARIABLES posts, now, PAGE, req, resp, history

vars == <<posts, now, PAGE, req, resp, history>>

\* ---------------------------------------------------------------- helpers
Max(a, b) == IF a >= b THEN a ELSE b

Min(a, b) == IF a <= b THEN a ELSE b

Range(s) == {s[i] : i \in DOMAIN s}

\* s[bottom:top] of Python, 0-based, already clipped by the caller
Slice(s, bottom, top) ==
  IF top <= bottom THEN <<>>
  ELSE [i \in 1..(Min(top, Len(s)) - Min(bottom, Len(s))) |-> s[Min(bottom, Len(s)) + i]]

\* ---------------------------------------------------------------- store
\* pks of the stored posts
Pks == DOMAIN posts

\* the row that precedes every other row of ids in the default ordering:
\* newest pub_date first, equal dates by pk descending
First(ids) ==
  CHOOSE i \in ids : \A j \in ids :
     \/ posts[i].pub_date > posts[j].pub_date
     \/ posts[i].pub_date = posts[j].pub_date /\ i >= j

RECURSIVE Ordered(_)
Ordered(ids) ==
  IF ids = {} THEN <<>>
  ELSE LET f == First(ids) IN <<f>> \o Ordered(ids \ {f})

\* Post.objects.all()
AllPosts == Ordered(Pks)

\* a filter that forgets the group
FilterGroup_all(group) == AllPosts

\* Post.objects.filter(group=group)
FilterGroup(group) == Ordered({i \in Pks : posts[i].group = group})

\* author.posts.all()
AuthorPosts(author) == Ordered({i \in Pks : posts[i].author = author})

\* ---------------------------------------------------------------- Paginator
\* the ?page= query parameter: absent, not a number, or an integer
NoPage == [kind |-> "missing", val |-> 0]

TextPage == [kind |-> "text", val |-> 0]

IntPage(k) == [kind |-> "int", val |-> k]

\* Paginator.count
count(object_list) == Len(object_list)

\* a page count that rounds down
num_pages_floor(object_list, per_page) ==
  Max(1, count(object_list) \div per_page)

\* Paginator.num_pages (orphans = 0, allow_empty_first_page = True)
num_pages(object_list, per_page) ==
  LET hits == Max(1, count(object_list) - 0)
  IN (hits + per_page - 1) \div per_page

\* Paginator.validate_number: the page number, or the exception raised
validate_number(object_list, per_page, number) ==
  IF number.kind # "int" THEN [raised |-> "PageNotAnInteger", number |-> 0]
  ELSE IF number.val < 1 THEN [raised |-> "EmptyPage", number |-> 0]
  ELSE IF number.val > num_pages(object_list, per_page)
       THEN [raised |-> "EmptyPage", number |-> 0]
  ELSE [raised |-> "", number |-> number.val]

\* Paginator.page: the slice [bottom, top) of the listing
page(object_list, per_page, number) ==
  LET bottom == (number - 1) * per_page
      top == IF bottom + per_page + 0 >= count(object_list)
             THEN count(object_list) ELSE bottom + per_page
  IN [object_list |-> Slice(object_list, bottom, top),
      number |-> number,
      num_pages |-> num_pages(object_list, per_page)]

\* a get_page that sends every bad number to the first page
get_page_first(object_list, per_page, number) ==
  LET v == validate_number(object_list, per_page, number)
      n == IF v.raised # "" THEN 1 ELSE v.number
  IN page(object_list, per_page, n)

\* Paginator.get_page: never raises
get_page(object_list, per_page, number) ==
  LET v == validate_number(object_list, per_page, number)
      n == IF v.raised = "PageNotAnInteger" THEN 1
           ELSE IF v.raised = "EmptyPage" THEN num_pages(object_list, per_page)
           ELSE v.number
  IN page(object_list, per_page, n)

\* ---------------------------------------------------------------- responses
NoPageObj == [object_list |-> <<>>, number |-> 0, num_pages |-> 0]

NoPost == [pk |-> 0, text |-> "", group |-> NoGroup, author |-> "", pub_date |-> 0]

NoForm == [is_bound |-> FALSE, errors |-> FALSE, text |-> "", group |-> NoGroup]

Response(status, template, location, page_obj, post, count_posts, form) ==
  [status |-> status, template |-> template, location |-> location,
   page_obj |-> page_obj, post |-> post, count_posts |-> count_posts,
   form |-> form]

\* render(request, template, context)
render(template, page_obj, post, count_posts, form) ==
  Response(200, template, <<>>, page_obj, post, count_posts, form)

\* redirect(to, arg)
redirect(to, arg) ==
  Response(302, "", <<to, arg>>, NoPageObj, NoPost, 0, NoForm)

\* raise Http404 of get_object_or_404
NotFound == Response(404, "", <<>>, NoPageObj, NoPost, 0, NoForm)

\* the redirect of login_required for a request without a session
redirect_to_login == redirect("login", "next")

NoResponse == Response(0, "", <<>>, NoPageObj, NoPost, 0, NoForm)

\* the Post object of pk as the templates see it
PostObj(pk) ==
  [pk |-> pk, text |-> posts[pk].text, group |-> posts[pk].group,
   author |-> posts[pk].author, pub_date |-> posts[pk].pub_date]

\* ---------------------------------------------------------------- requests
Absent == "<absent>"                  \* a key the submitted data does not carry

\* an empty request.POST
NoData == [text |-> Absent, group |-> Absent]

\* the submitted form data tried: empty, blank text, an unknown group, and
\* the valid combinations of text and group
Payloads ==
  {NoData, [text |-> "", group |-> "g1"], [text |-> "a", group |-> "zz"]}
  \cup [text : {"a", "b"}, group : {""} \cup Groups]

Request(handler, user, method, slug, username, post_id, pg, POST) ==
  [handler |-> handler, user |-> user, method |-> method, slug |-> slug,
   username |-> username, post_id |-> post_id, page |-> pg, POST |-> POST]

NoRequest == Request("", AnonymousUser, "GET", "", "", 0, NoPage, NoData)

\* request.user.is_authenticated
is_authenticated(user) == user # AnonymousUser

\* ---------------------------------------------------------------- read handlers
index(request) ==
  render("posts/index.html", get_page(AllPosts, PAGE, request.page),
         NoPost, 0, NoForm)

group_posts(request) ==
  IF request.slug \notin Groups THEN NotFound
  ELSE render("posts/group_list.html",
              get_page(FilterGroup(request.slug), PAGE, request.page),
              NoPost, 0, NoForm)

profile(request) ==
  IF request.username \notin Users THEN NotFound
  ELSE render("posts/profile.html",
              get_page(AuthorPosts(request.username), PAGE, request.page),
              NoPost, count(AuthorPosts(request.username)), NoForm)

\* a detail page that counts every post of the site
post_detail_count_all(request) ==
  IF request.post_id \notin Pks THEN NotFound
  ELSE render("posts/post_detail.html", NoPageObj, PostObj(request.post_id),
              count(AllPosts), NoForm)

post_detail(request) ==
  IF request.post_id \notin Pks THEN NotFound
  ELSE render("posts/post_detail.html", NoPageObj, PostObj(request.post_id),
              count(AuthorPosts(posts[request.post_id].author)), NoForm)

\* ---------------------------------------------------------------- PostForm
\* request.POST or None: an empty QueryDict leaves the form unbound
is_bound(POST) == ~(POST.text = Absent /\ POST.group = Absent)

\* the field errors of a bound form: text is required, group is optional
\* and must name a Group row
has_errors(POST) ==
  \/ POST.text \in {Absent, ""}
  \/ POST.group \notin ({Absent, ""} \cup Groups)

\* form.is_valid()
is_valid(POST) == is_bound(POST) /\ ~has_errors(POST)

\* form.cleaned_data of a valid form
cleaned_text(POST) == POST.text

cleaned_group(POST) == IF POST.group \in Groups THEN POST.group ELSE NoGroup

\* the form object handed to the template
UnboundForm(text, group) ==
  [is_bound |-> FALSE, errors |-> FALSE, text |-> text, group |-> group]

BoundForm(POST) ==
  [is_bound |-> is_bound(POST), errors |-> is_bound(POST) /\ has_errors(POST),
   text |-> POST.text, group |-> POST.group]

\* ---------------------------------------------------------------- write handlers
\* datetime.now(): the server clock read by a save, later than the last read
Clock == {t \in {now + 1} : t <= MaxTime}

\* a handler that saves without looking at the validation result
form_rejected_never(POST) == FALSE

\* if not form.is_valid(): the branch that re-renders the form
form_rejected(POST) == ~is_valid(POST)

\* Post(): the blank instance a create form starts from
BlankPost == [text |-> "", group |-> NoGroup, author |-> "", pub_date |-> 0]

\* a save that leaves out post.author = request.user
saved_post_no_author(instance, POST, user, t) ==
  [text |-> cleaned_text(POST), group |-> cleaned_group(POST),
   author |-> instance.author, pub_date |-> t]

\* a save that leaves out post.pub_date = datetime.now()
saved_post_stale_date(instance, POST, user, t) ==
  [text |-> cleaned_text(POST), group |-> cleaned_group(POST),
   author |-> user, pub_date |-> instance.pub_date]

\* form.save(commit=False); post.author = request.user;
\* post.pub_date = datetime.now(): the row post.save() writes
saved_post(instance, POST, user, t) ==
  [text |-> cleaned_text(POST), group |-> cleaned_group(POST),
   author |-> user, pub_date |-> t]

\* a view without the decorator
login_required_off(user) == TRUE

\* @login_required: does the request reach the view
login_required(user) == is_authenticated(user)

\* a lookup by id alone
edit_lookup_by_id(post_id, user) == {i \in Pks : i = post_id}

\* get_object_or_404(Post, id=post_id, author=request.user): the matching pks
edit_lookup(post_id, user) ==
  {i \in Pks : i = post_id /\ posts[i].author = user}

post_create(user, method, POST) ==
  /\ req = NoRequest
  /\ req' = Request("post_create", user, method, "", "", 0, NoPage, POST)
  /\ UNCHANGED PAGE
  /\ IF ~login_required(user)
     THEN /\ resp' = redirect_to_login
          /\ UNCHANGED <<posts, now, history>>
     ELSE IF method # "POST"
     THEN /\ resp' = render("posts/create_post.html", NoPageObj, NoPost, 0,
                            UnboundForm("", NoGroup))
          /\ UNCHANGED <<posts, now, history>>
     ELSE IF form_rejected(POST)
     THEN /\ resp' = render("posts/create_post.html", NoPageObj, NoPost, 0,
                            BoundForm(POST))
          /\ UNCHANGED <<posts, now, history>>
     ELSE /\ \E t \in Clock :
               /\ now' = t
               /\ posts' = Append(posts, saved_post(BlankPost, POST, user, t))
          /\ history' = Append(history, [created_by |-> user, saved_by |-> user])
          /\ resp' = redirect("posts:profile", user)

post_edit(user, method, post_id, POST) ==
  /\ req = NoRequest
  /\ req' = Request("post_edit", user, method, "", "", post_id, NoPage, POST)
  /\ UNCHANGED PAGE
  /\ IF ~login_required(user)
     THEN /\ resp' = redirect_to_login
          /\ UNCHANGED <<posts, now, history>>
     ELSE IF edit_lookup(post_id, user) = {}
     THEN /\ resp' = NotFound
          /\ UNCHANGED <<posts, now, history>>
     ELSE LET pk == CHOOSE i \in edit_lookup(post_id, user) : TRUE IN
       IF method # "POST"
       THEN /\ resp' = render("posts/update_post.html", NoPageObj, PostObj(pk), 0,
                              UnboundForm(posts[pk].text, posts[pk].group))
            /\ UNCHANGED <<posts, now, history>>
       ELSE IF form_rejected(POST)
       THEN /\ resp' = render("posts/update_post.html", NoPageObj, NoPost, 0,
                              BoundForm(POST))
            /\ UNCHANGED <<posts, now, history>>
       ELSE /\ \E t \in Clock :
                 /\ now' = t
                 /\ posts' = [posts EXCEPT ![pk] =
                                 saved_post(posts[pk], POST, user, t)]
            /\ history' = [history EXCEPT ![pk].saved_by = user]
            /\ resp' = redirect("posts:post_detail", pk)

\* ---------------------------------------------------------------- read actions
Read(request, response) ==
  /\ req = NoRequest
  /\ req' = request
  /\ resp' = response
  /\ UNCHANGED <<posts, now, PAGE, history>>

Index(pg) ==
  LET request == Request("index", AnonymousUser, "GET", "", "", 0, pg, NoData)
  IN Read(request, index(request))

GroupPosts(slug, pg) ==
  LET request == Request("group_posts", AnonymousUser, "GET", slug, "", 0, pg, NoData)
  IN Read(request, group_posts(request))

Profile(username, pg) ==
  LET request == Request("profile", AnonymousUser, "GET", "", username, 0, pg, NoData)
  IN Read(request, profile(request))

PostDetail(post_id) ==
  LET request == Request("post_detail", AnonymousUser, "GET", "", "", post_id, NoPage, NoData)
  IN Read(request, post_detail(request))

\* the response is handed back and the server waits for the next request
Respond ==
  /\ req # NoRequest
  /\ req' = NoRequest
  /\ resp' = NoResponse
  /\ UNCHANGED <<posts, now, PAGE, history>>

\* ---------------------------------------------------------------- specification
\* the ?page= values tried against the small store
PageParams == {NoPage, IntPage(2)}

\* the requests tried: a GET carries no form data
Submissions ==
  {<<"GET", NoData>>} \cup {<<"POST", POST>> : POST \in Payloads}

\* post ids a URL can carry: the stored ones and one that matches no post
PostIds == 1..(MaxTime + 1)

Init ==
  /\ posts = <<>>
  /\ history = <<>>
  /\ now = 0
  /\ PAGE \in {1, 2}
  /\ req = NoRequest
  /\ resp = NoResponse

Next ==
  \/ \E pg \in PageParams : Index(pg)
  \/ \E slug \in Slugs, pg \in PageParams : GroupPosts(slug, pg)
  \/ \E username \in Usernames, pg \in PageParams : Profile(username, pg)
  \/ \E post_id \in PostIds : PostDetail(post_id)
  \/ \E user \in Users \cup {AnonymousUser}, s \in Submissions :
        post_create(user, s[1], s[2])
  \/ \E user \in Users \cup {AnonymousUser}, post_id \in PostIds,
        s \in Submissions : post_edit(user, s[1], post_id, s[2])
  \/ Respond

Spec == Init /\ [][Next]_vars

\* ---------------------------------------------------------------- paginator runs
\* the store of PaginatorViewsTest.setUpClass: n posts of one user in one group
Fixture(n) ==
  [i \in 1..n |-> [text |-> "a", group |-> "g1", author |-> "u1", pub_date |-> i]]

\* every kind of ?page= value: absent, not a number, below, in and above range
AllPageParams == {NoPage, TextPage} \cup {IntPage(k) : k \in (-1)..MaxPageNumber}

InitPag ==
  /\ \E n \in 0..MaxItems :
       /\ posts = Fixture(n)
       /\ history = [i \in 1..n |-> [created_by |-> "u1", saved_by |-> "u1"]]
       /\ now = n
  /\ PAGE \in 1..MaxPerPage
  /\ req = NoRequest
  /\ resp = NoResponse

NextPag ==
  \/ \E pg \in AllPageParams : Index(pg)
  \/ \E slug \in Slugs, pg \in AllPageParams : GroupPosts(slug, pg)
  \/ \E username \in Usernames, pg \in AllPageParams : Profile(username, pg)
  \/ Respond

SpecPag == InitPag /\ [][NextPag]_vars

\* ================================================================ properties
\* a request handled by one of the three listing handlers that finds its
\* group or user
IsListing(r) ==
  \/ r.handler = "index"
  \/ r.handler = "group_posts" /\ r.slug \in Groups
  \/ r.handler = "profile" /\ r.username \in Users

\* the pks the listing of r is made of
ListedPks(r) ==
  IF r.handler = "index" THEN Pks
  ELSE IF r.handler = "group_posts" THEN {i \in Pks : posts[i].group = r.slug}
  ELSE {i \in Pks : posts[i].author = r.username}

CeilDiv(n, p) == (n + p - 1) \div p

\* the user owns the post of that id
Owns(user, post_id) == post_id \in Pks /\ posts[post_id].author = user

\* the submitted data fails validation
Invalid(POST) ==
  \/ POST.text \in {Absent, ""}
  \/ POST.group \notin ({Absent, ""} \cup Groups)

\* the group a valid submission asks for
SubmittedGroup(POST) == IF POST.group \in {Absent, ""} THEN NoGroup ELSE POST.group

\* a step that handles a request of the handler
Handles(handler) == req = NoRequest /\ req'.handler = handler

\* every post some page of the listing of the group shows
GroupListing(slug) ==
  UNION {Range(group_posts(Request("group_posts", AnonymousUser, "GET", slug, "",
                                   0, IntPage(k), NoData)).page_obj.object_list) :
         k \in 1..(Len(posts) + 1)}

\* every post some page of the profile of the user shows
ProfileListing(username) ==
  UNION {Range(profile(Request("profile", AnonymousUser, "GET", "", username,
                               0, IntPage(k), NoData)).page_obj.object_list) :
         k \in 1..(Len(posts) + 1)}

\* ---------------------------------------------------------------- C1
\* C1: post_edit by an authenticated user who is not the author of the post
\* of that id, GET or POST, answers NotFound, exactly as for an id that
\* matches no post, and leaves every stored post as it was.
C1_NonAuthorEditNotFound ==
  [][(Handles("post_edit") /\ req'.user \in Users
        /\ ~Owns(req'.user, req'.post_id))
     => (resp' = NotFound /\ posts' = posts)]_vars

C1_Witness ==
  /\ req.handler = "post_edit" /\ req.method = "POST" /\ req.user \in Users
  /\ req.post_id \in Pks /\ posts[req.post_id].author # req.user
  /\ ~Invalid(req.POST)
  /\ resp = NotFound

\* ---------------------------------------------------------------- C2
\* C2: a valid POST to post_create by an authenticated user adds exactly one
\* post, authored by that user with the submitted text and group, answers
\* with a redirect to the user's profile, and the profile listing then shows
\* the new post.
C2_CreateStep ==
  (Handles("post_create") /\ req'.user \in Users /\ req'.method = "POST"
     /\ ~Invalid(req'.POST))
  => /\ Len(posts') = Len(posts) + 1
     /\ \A pk \in Pks : posts'[pk] = posts[pk]
     /\ posts'[Len(posts')].author = req'.user
     /\ posts'[Len(posts')].text = req'.POST.text
     /\ posts'[Len(posts')].group = SubmittedGroup(req'.POST)
     /\ resp'.status = 302
     /\ resp'.location = <<"posts:profile", req'.user>>

C2_Created ==
  /\ req.handler = "post_create" /\ resp.status = 302
  /\ resp.location = <<"posts:profile", req.user>>

C2_CreateAddsOnePost ==
  /\ [][C2_CreateStep]_vars
  /\ [](C2_Created => Len(posts) \in ProfileListing(req.user))

C2_Witness ==
  /\ C2_Created
  /\ Len(posts) = 2 /\ posts[2].author = req.user /\ posts[1].author = req.user
  /\ posts[2].text = "b" /\ posts[2].group = NoGroup

\* ---------------------------------------------------------------- C3
\* C3: an invalid POST to post_create or post_edit changes no stored post,
\* and when the request passes the login and ownership checks the answer is
\* the form rendered again with status 200.
C3_InvalidPersistsNothing ==
  [][((Handles("post_create") \/ Handles("post_edit")) /\ req'.method = "POST"
        /\ Invalid(req'.POST))
     => /\ posts' = posts
        /\ (req'.user \in Users /\ req'.handler = "post_create")
             => (resp'.status = 200 /\ resp'.template = "posts/create_post.html")
        /\ (req'.handler = "post_edit" /\ Owns(req'.user, req'.post_id))
             => (resp'.status = 200 /\ resp'.template = "posts/update_post.html")]_vars

C3_Witness ==
  /\ req.handler = "post_edit" /\ req.method = "POST" /\ req.POST.text = ""
  /\ Owns(req.user, req.post_id)
  /\ resp.status = 200 /\ resp.form.errors

\* ---------------------------------------------------------------- C4
\* C4: post_create and post_edit without a session answer with the redirect
\* to login whatever the method and data, and change no post; every stored
\* post was created and last saved by a request of a logged-in user.
C4_UnauthenticatedNeverWrites ==
  /\ [][((Handles("post_create") \/ Handles("post_edit"))
           /\ req'.user = AnonymousUser)
        => (resp' = redirect_to_login /\ posts' = posts)]_vars
  /\ [](\A pk \in Pks : /\ history[pk].created_by \in Users
                        /\ history[pk].saved_by \in Users)

C4_Witness ==
  /\ req.handler = "post_edit" /\ req.user = AnonymousUser
  /\ req.method = "POST" /\ ~Invalid(req.POST) /\ req.post_id \in Pks
  /\ resp = redirect_to_login

\* ---------------------------------------------------------------- C5
\* C5 as stated: a listing of N items with page size P has ceil(N/P) pages,
\* each of P items except the last, which has N mod P items (P when N mod P
\* is 0).
C5_Original ==
  IsListing(req) =>
    LET N == Cardinality(ListedPks(req))
        P == PAGE
        pg == resp.page_obj
    IN /\ pg.num_pages = CeilDiv(N, P)
       /\ Len(pg.object_list) =
            IF pg.number < pg.num_pages THEN P
            ELSE IF N % P = 0 THEN P ELSE N % P

\* C5 amended: that holds for every N >= 1; a listing of no items has one
\* page, which holds no items.
C5_PageSizes ==
  IsListing(req) =>
    LET N == Cardinality(ListedPks(req))
        P == PAGE
        pg == resp.page_obj
    IN /\ resp.status = 200
       /\ pg.number \in 1..pg.num_pages
       /\ IF N = 0 THEN pg.num_pages = 1 /\ Len(pg.object_list) = 0
          ELSE /\ pg.num_pages = CeilDiv(N, P)
               /\ Len(pg.object_list) =
                    IF pg.number < pg.num_pages THEN P
                    ELSE IF N % P = 0 THEN P ELSE N % P

C5_Witness ==
  /\ req.handler = "group_posts" /\ req.slug = "g1"
  /\ Len(posts) = 13 /\ PAGE = 10
  /\ resp.page_obj.number = 2 /\ resp.page_obj.num_pages = 2
  /\ Len(resp.page_obj.object_list) = 3

\* ---------------------------------------------------------------- C6
\* C6: whatever the page parameter, a listing handler answers 200: a missing
\* or non-numeric value selects page 1, a number in range selects that page,
\* a number out of range selects the last page, and the items returned are
\* items [(K'-1)*P, K'*P) of the listing clipped to [0, N).
C6_PageSelection ==
  IsListing(req) =>
    LET L == Ordered(ListedPks(req))
        N == Len(L)
        P == PAGE
        last == Max(1, CeilDiv(N, P))
        K == resp.page_obj.number
        lo == Min((K - 1) * P, N)
        hi == Min(K * P, N)
    IN /\ resp.status = 200
       /\ K = IF req.page.kind # "int" THEN 1
              ELSE IF req.page.val \in 1..last THEN req.page.val
              ELSE last
       /\ resp.page_obj.object_list = [i \in 1..(hi - lo) |-> L[lo + i]]

C6_Witness ==
  /\ req.handler = "index" /\ req.page = IntPage(3)
  /\ Len(posts) = 13 /\ PAGE = 10
  /\ resp.page_obj.number = 2
  /\ resp.page_obj.object_list = <<3, 2, 1>>

\* ---------------------------------------------------------------- C7
\* C7: whenever the listing of a group is requested, after any creates and
\* edits, the pages of the listing show exactly the posts whose group it is
\* (each post of the group on some page, no post of another group or of no
\* group on any page), and the page answered is one of them; the listing of
\* a slug that matches no group answers NotFound.
C7_GroupListing ==
  req.handler = "group_posts" =>
    IF req.slug \in Groups
    THEN /\ \A pk \in Pks :
              pk \in GroupListing(req.slug) <=> posts[pk].group = req.slug
         /\ resp.status = 200
         /\ Range(resp.page_obj.object_list) \subseteq GroupListing(req.slug)
    ELSE resp = NotFound

C7_Witness ==
  /\ req.handler = "group_posts" /\ req.slug = "g2"
  /\ Len(posts) = 2 /\ posts[1].group = "g1" /\ posts[2].group = "g2"
  /\ resp.page_obj.object_list = <<2>>

\* ---------------------------------------------------------------- C8
\* C8: post_detail of a stored post answers with that post's author, text
\* and group and with count_posts, the number of posts of its author; for
\* an id that matches no post it answers NotFound.
C8_PostDetail ==
  req.handler = "post_detail" =>
    IF req.post_id \in Pks
    THEN /\ resp.status = 200
         /\ resp.post.pk = req.post_id
         /\ resp.post.author = posts[req.post_id].author
         /\ resp.post.text = posts[req.post_id].text
         /\ resp.post.group = posts[req.post_id].group
         /\ resp.count_posts =
              Cardinality({i \in Pks : posts[i].author = posts[req.post_id].author})
    ELSE resp = NotFound

C8_Witness ==
  /\ req.handler = "post_detail" /\ req.post_id = 1
  /\ Len(posts) = 2 /\ posts[1].author # posts[2].author
  /\ resp.status = 200 /\ resp.count_posts = 1 /\ resp.post.text = posts[1].text

\* ---------------------------------------------------------------- C9
\* C9: no step removes a post or changes a post's author, and every stored
\* post has one author, the user whose create request made it.
C9_AuthorFixed ==
  /\ [][\A pk \in Pks : pk \in DOMAIN posts'
                         /\ posts'[pk].author = posts[pk].author]_vars
  /\ [](\A pk \in Pks : /\ posts[pk].author \in Users
                        /\ posts[pk].author = history[pk].created_by)

C9_Witness ==
  /\ req.handler = "post_edit" /\ resp.status = 302
  /\ Len(posts) = 1 /\ posts[1].author = req.user
  /\ posts[1].pub_date = 2

====
